---- MODULE Spec2Model ----
(***************************************************************************)
(* Model of app.py, the Streamlit script "Video to Text Converter for     *)
(* Indic Languages".  One script run is: sidebar selections, the three     *)
(* helper definitions (lines 54-88), the upload widget, the handler of the *)
(* "Start Transcription" button (lines 111-213), and then the definition   *)
(* of format_time_srt (lines 215-220) and the footer.                      *)
(*                                                                         *)
(* Texts are sequences of Unicode code points, so that formatting and      *)
(* trimming are computed and not assumed.  Times are whole numbers of      *)
(* thirds of a millisecond: finer than a millisecond, and no such value is *)
(* halfway between two milliseconds, so the "%.3f" rounding of the float   *)
(* is the rounding to the nearest millisecond.                             *)
(***************************************************************************)
EXTENDS Integers, Sequences, FiniteSets, TLC

VARIABLES
    pc,               \* position of the script run
    uploaded_file,    \* what the upload widget holds (line 91)
    model_size,       \* sidebar selection (line 47)
    bound,            \* names bound in the namespace of the current script run
    progress,         \* progress_bar: <<>> when absent/emptied, <<v>> when shown
    status_text,      \* status_text:  <<>> when absent/emptied, <<label>> when shown
    banners,          \* st.error banners shown in this script run, in order
    success,          \* st.success shown in this run
    text_area,        \* <<>> or <<text>>: the "Transcribed Text" area
    dataframe,        \* <<>> or <<rows>>: the segment table
    downloads,        \* download buttons rendered: records [label, data]
    files,            \* temporary files that exist on disk
    next_file,        \* source of fresh temporary file names
    temp_video_path,  \* handler local (line 122)
    temp_audio_path,  \* extract_audio_from_video local (line 62)
    audio_path,       \* handler local (line 128)
    cache,            \* st.cache_resource store of load_whisper_model
    next_instance,    \* source of fresh model instances
    model,            \* handler local (line 135)
    result,           \* handler local (line 142)
    calls,            \* components invoked in this run, in order
    created,          \* temporary files created by this run
    deleted,          \* temporary files unlinked by this run
    returned,         \* <<size, instance, from_cache>>: what load_whisper_model has returned
    runs,             \* handler runs started so far
    fmt_pc,           \* position of a stand-alone call of format_time_srt
    fmt_in,           \* its argument
    fmt_out           \* its return value

vars == <<pc, uploaded_file, model_size, bound, progress, status_text, banners,
          success, text_area, dataframe, downloads, files, next_file,
          temp_video_path, temp_audio_path, audio_path, cache, next_instance,
          model, result, calls, created, deleted, returned, runs, fmt_pc, fmt_in, fmt_out>>

uiVars == <<progress, status_text, banners, success, text_area, dataframe, downloads>>
fileVars == <<files, next_file, temp_video_path, temp_audio_path, audio_path,
              created, deleted>>
cacheVars == <<cache, next_instance, returned>>
fmtVars == <<fmt_pc, fmt_in, fmt_out>>

----------------------------------------------------------------------------
(* Bounds *)

MaxRuns == 2
NumSizes == 2
MaxSegs == 2
MaxFmtSeconds == 3661

----------------------------------------------------------------------------
(* Time and text helpers *)

UnitsPerMs == 1 + 2
UnitsPerSec == 1000 * UnitsPerMs

Seconds(n) == n * UnitsPerSec

\* ord(c), for the characters of the literals of app.py that the texts use
Ord(c) ==
    LET digits == <<"0", "1", "2", "3", "4", "5", "6", "7", "8", "9">>
        lower == <<"a", "b", "c", "d", "e", "f", "g", "h", "i", "j", "k", "l", "m",
                   "n", "o", "p", "q", "r", "s", "t", "u", "v", "w", "x", "y", "z">>
    IN  CASE c = "\t" -> 9
          [] c = "\n" -> 10
          [] c = "\r" -> 13
          [] c = " " -> 32
          [] c = "," -> 44
          [] c = "-" -> 45
          [] c = "." -> 46
          [] c = ":" -> 58
          [] c = ">" -> 62
          [] \E i \in 1..10 : digits[i] = c -> 47 + (CHOOSE i \in 1..10 : digits[i] = c)
          [] \E i \in 1..26 : lower[i] = c -> 96 + (CHOOSE i \in 1..26 : lower[i] = c)

\* the text of a literal
Code(s) == [i \in 1..Len(s) |-> Ord(s[i])]

DigitChars == Code(<<"0", "1", "2", "3", "4", "5", "6", "7", "8", "9">>)

RECURSIVE Digits(_)
Digits(n) == IF n < 10 THEN <<DigitChars[n + 1]>>
             ELSE Digits(n \div 10) \o <<DigitChars[(n % 10) + 1]>>

RECURSIVE ZeroPad(_, _)
ZeroPad(s, width) == IF Len(s) >= width THEN s ELSE ZeroPad(Code(<<"0">>) \o s, width)

Pad2(n) == ZeroPad(Digits(n), 2)

\* str.strip() without argument removes the characters c with c.isspace():
\* U+0009-000D, U+001C-0020, U+0085, U+00A0, U+1680, U+2000-200A, U+2028,
\* U+2029, U+202F, U+205F, U+3000
Whitespace ==
    (9..13) \cup (28..32) \cup {133, 160, 5760} \cup (8192..8202)
        \cup {8232, 8233, 8239, 8287, 12288}

RECURSIVE lstrip(_)
lstrip(s) == IF s # <<>> /\ Head(s) \in Whitespace THEN lstrip(Tail(s)) ELSE s

RECURSIVE rstrip(_)
rstrip(s) == IF s # <<>> /\ s[Len(s)] \in Whitespace
             THEN rstrip(SubSeq(s, 1, Len(s) - 1)) ELSE s

strip(s) == rstrip(lstrip(s))

Range(s) == {s[i] : i \in 1..Len(s)}

Replace(s, old, new) == [i \in 1..Len(s) |-> IF s[i] = old THEN new ELSE s[i]]

RECURSIVE Concat(_)
Concat(ss) == IF ss = <<>> THEN <<>> ELSE Head(ss) \o Concat(Tail(ss))

SeqsUpTo(S, n) == UNION {[1..k -> S] : k \in 0..n}

----------------------------------------------------------------------------
(* format_time_srt, lines 215-220 *)

\* "%.3f" of a value that is not halfway between two milliseconds.
RoundMs(u) == (2 * u + UnitsPerMs) \div (2 * UnitsPerMs)

\* f"{seconds:06.3f}": three decimals, zero-padded to six characters.
Format063f(u) ==
    LET ms == RoundMs(u)
    IN  ZeroPad(Digits(ms \div 1000) \o Code(<<".">>) \o ZeroPad(Digits(ms % 1000), 3), 6)

format_time_srt(seconds) ==
    LET hours == seconds \div Seconds(3600)
        minutes == (seconds % Seconds(3600)) \div Seconds(60)
        secs == seconds % Seconds(60)
    IN  Replace(Pad2(hours) \o Code(<<":">>) \o Pad2(minutes) \o Code(<<":">>)
                    \o Format063f(secs),
                Ord("."), Ord(","))

----------------------------------------------------------------------------
(* Result presentation helpers, lines 160-202 *)

\* f"{int(t // 60):02d}:{int(t % 60):02d}", lines 166-167
TableTime(t) ==
    Pad2(t \div Seconds(60)) \o Code(<<":">>) \o Pad2((t % Seconds(60)) \div UnitsPerSec)

TableRow(segment) ==
    [Time |-> TableTime(segment.start) \o Code(<<" ", "-", " ">>) \o TableTime(segment.end),
     Text |-> strip(segment.text)]

segments_data(segments) == [i \in 1..Len(segments) |-> TableRow(segments[i])]

\* line 195: f"{i}\n{start_time} --> {end_time}\n{segment['text'].strip()}\n\n"
SrtBlock(i, segment) ==
    Digits(i) \o Code(<<"\n">>) \o format_time_srt(segment.start)
        \o Code(<<" ", "-", "-", ">", " ">>) \o format_time_srt(segment.end)
        \o Code(<<"\n">>)
        \o strip(segment.text) \o Code(<<"\n", "\n">>)

srt_content(segments) == Concat([i \in 1..Len(segments) |-> SrtBlock(i, segments[i])])

\* The loop of lines 192-195 looks format_time_srt up in the namespace of the
\* script run on its first iteration.
SrtLoopRaises(segments, names) == Len(segments) > 0 /\ "format_time_srt" \notin names

----------------------------------------------------------------------------
(* Inputs *)

NoPath == 0
NoModel == 0

ModelSizes == <<"tiny", "base", "small", "medium", "large">>
DefaultSize == ModelSizes[3]
AllSizes == Range(ModelSizes)
\* the sizes a user of the model selects: the default and the first NumSizes
Selectable == {DefaultSize} \cup {ModelSizes[i] : i \in 1..NumSizes}

\* what the uploaded container holds
Videos == {"ok", "no_audio", "corrupt"}

\* two segments; their texts are " a" + U+00A0 and U+3000 + "b\r\n"
SegPool ==
    { [start |-> Seconds(0), end |-> Seconds(59) + 2999,
       text |-> Code(<<" ", "a">>) \o <<160>>],
      [start |-> Seconds(3661) + 1500, end |-> Seconds(3725),
       text |-> <<12288>> \o Code(<<"b", "\r", "\n">>)] }

Ordered(segs) == \A i \in 1..Len(segs) - 1 : segs[i].start <= segs[i + 1].start

NoneResult == [is_none |-> TRUE, text |-> <<>>, has_segments |-> FALSE, segments |-> <<>>]

\* what model.transcribe returns: 'text' and 'segments', the text being the
\* segments' texts joined; and, for line 161/190, a result without 'segments'
Results ==
    { [is_none |-> FALSE,
       text |-> Concat([i \in 1..Len(segs) |-> segs[i].text]),
       has_segments |-> TRUE,
       segments |-> segs] : segs \in {q \in SeqsUpTo(SegPool, MaxSegs) : Ordered(q)} }
    \cup { [is_none |-> FALSE, text |-> Code(<<"a">>), has_segments |-> FALSE, segments |-> <<>>] }

NamesBeforeHandler == {"load_whisper_model", "extract_audio_from_video", "transcribe_audio"}

----------------------------------------------------------------------------
(* The helper functions of lines 54-88, as functions of what their calls meet *)

\* lines 64-74: the body of the try raises on a container that cannot be read,
\* on a video with no audio track (video.audio is None), on a failed write
ExtractRaises(video, write_ok) == video # "ok" \/ ~write_ok

\* a variant that returns the path from the except branch too
extract_returns_path_on_error(video, write_ok, path) == path

extract_audio_from_video(video, write_ok, path) ==
    IF ExtractRaises(video, write_ok) THEN NoPath ELSE path

\* st.cache_resource, lines 54-57: one entry per argument, never dropped
CacheHit(c, size) == c[size] # NoModel

\* a variant that keeps one model resident
CacheStoreSingle(c, size, instance) ==
    [s \in DOMAIN c |-> IF s = size THEN instance ELSE NoModel]

CacheStore(c, size, instance) == [c EXCEPT ![size] = instance]

\* lines 78-88: the inference result, or None when inference raises
transcribe_audio(raises, r) == IF raises THEN NoneResult ELSE r

\* "if audio_path:", line 130
PathTruthy(path) == path # NoPath

\* a variant that takes any returned value for a result
TruthyAlways(r) == TRUE

\* "if result:", line 144
Truthy(r) == r # NoneResult

\* a variant with the cleanup inside "if result:"
AfterTranscribeCleanupNested(r) == IF Truthy(r) THEN "present" ELSE "done"

\* lines 144-208: the presentation is inside "if result:", the cleanup after it
AfterTranscribe(r) == IF Truthy(r) THEN "present" ELSE "cleanup"

----------------------------------------------------------------------------
(* Initial state: the first script run has ended, nothing is uploaded *)

Init ==
    /\ pc = "idle"
    /\ uploaded_file = "none"
    /\ model_size = DefaultSize
    /\ bound = NamesBeforeHandler \cup {"format_time_srt"}
    /\ progress = <<>>
    /\ status_text = <<>>
    /\ banners = <<>>
    /\ success = FALSE
    /\ text_area = <<>>
    /\ dataframe = <<>>
    /\ downloads = {}
    /\ files = {}
    /\ next_file = 1
    /\ temp_video_path = NoPath
    /\ temp_audio_path = NoPath
    /\ audio_path = NoPath
    /\ cache = [s \in AllSizes |-> NoModel]
    /\ next_instance = 1
    /\ model = NoModel
    /\ result = NoneResult
    /\ calls = <<>>
    /\ created = {}
    /\ deleted = {}
    /\ returned = {}
    /\ runs = 0
    /\ fmt_pc = "idle"
    /\ fmt_in = 0
    /\ fmt_out = <<>>

----------------------------------------------------------------------------
(* Script reruns *)

\* A rerun starts from an empty page and an empty namespace.
FreshPage ==
    /\ banners' = <<>>
    /\ success' = FALSE
    /\ text_area' = <<>>
    /\ dataframe' = <<>>
    /\ downloads' = {}

FreshNamespace ==
    /\ temp_video_path' = NoPath
    /\ temp_audio_path' = NoPath
    /\ audio_path' = NoPath
    /\ model' = NoModel
    /\ result' = NoneResult
    /\ calls' = <<>>
    /\ created' = {}
    /\ deleted' = {}

\* A widget change reruns the whole script with the button not pressed.
RerunWithoutClick ==
    /\ FreshPage
    /\ FreshNamespace
    /\ progress' = <<>>
    /\ status_text' = <<>>
    /\ bound' = NamesBeforeHandler \cup {"format_time_srt"}
    /\ UNCHANGED <<pc, files, next_file, cacheVars, runs, fmtVars>>

\* line 91: the user uploads a video
Upload(video) ==
    /\ pc = "idle"
    /\ uploaded_file' = video
    /\ UNCHANGED model_size
    /\ RerunWithoutClick

\* line 47: the user picks a model size
SelectModelSize(size) ==
    /\ pc = "idle"
    /\ size # model_size
    /\ model_size' = size
    /\ UNCHANGED uploaded_file
    /\ RerunWithoutClick

\* lines 97, 111-113: the button is pressed; the script has run down to the handler
ClickStart ==
    /\ pc = "idle"
    /\ uploaded_file # "none"
    /\ runs < MaxRuns
    /\ runs' = runs + 1
    /\ FreshPage
    /\ FreshNamespace
    /\ bound' = NamesBeforeHandler
    /\ progress' = <<0>>
    /\ status_text' = <<>>
    /\ pc' = "save"
    /\ UNCHANGED <<uploaded_file, model_size, files, next_file, cacheVars, fmtVars>>

----------------------------------------------------------------------------
(* The handler, lines 115-213 *)

\* lines 210-213
OuterHandler ==
    /\ banners' = Append(banners, "An error occurred")
    /\ progress' = <<>>
    /\ status_text' = <<>>
    /\ pc' = "done"

\* lines 117-122; outcome: what creating and writing the temporary file meets
SaveUpload(outcome) ==
    /\ pc = "save"
    /\ \/ /\ outcome = "ok"
          /\ files' = files \cup {next_file}
          /\ created' = created \cup {next_file}
          /\ temp_video_path' = next_file
          /\ next_file' = next_file + 1
          /\ progress' = <<10>>
          /\ status_text' = <<"Saving video file...">>
          /\ pc' = "extract"
          /\ UNCHANGED banners
       \/ /\ outcome = "create_fails"
          /\ OuterHandler
          /\ UNCHANGED <<files, created, temp_video_path, next_file>>
       \/ \* line 121 raises (the read, or a write that goes straight to disk)
          /\ outcome = "write_fails"
          /\ files' = files \cup {next_file}
          /\ created' = created \cup {next_file}
          /\ next_file' = next_file + 1
          /\ OuterHandler
          /\ UNCHANGED temp_video_path
       \/ \* the buffered write fails when the "with" of line 120 closes the
          \* file, after line 122 has bound temp_video_path
          /\ outcome = "close_fails"
          /\ files' = files \cup {next_file}
          /\ created' = created \cup {next_file}
          /\ temp_video_path' = next_file
          /\ next_file' = next_file + 1
          /\ OuterHandler
    /\ UNCHANGED <<uploaded_file, model_size, bound, success, text_area, dataframe,
                   downloads, temp_audio_path, audio_path, cacheVars, model, result,
                   calls, deleted, runs, fmtVars>>

\* lines 125-130 and 59-74
ExtractAudio(tmp_ok, write_ok) ==
    /\ pc = "extract"
    /\ calls' = Append(calls, "extract")
    /\ IF ~tmp_ok
       THEN \* line 61 raises, outside the function's try
            /\ OuterHandler
            /\ UNCHANGED <<files, created, temp_audio_path, audio_path, next_file>>
       ELSE /\ files' = files \cup {next_file}
            /\ created' = created \cup {next_file}
            /\ temp_audio_path' = next_file
            /\ next_file' = next_file + 1
            /\ audio_path' = extract_audio_from_video(uploaded_file, write_ok, next_file)
            /\ progress' = <<30>>
            /\ status_text' = <<"Extracting audio from video...">>
            /\ banners' = IF ExtractRaises(uploaded_file, write_ok)
                          THEN Append(banners, "Error extracting audio")
                          ELSE banners
            /\ pc' = IF PathTruthy(audio_path') THEN "load" ELSE "done"
    /\ UNCHANGED <<uploaded_file, model_size, bound, success, text_area, dataframe,
                   downloads, temp_video_path, cacheVars, model, result, deleted,
                   runs, fmtVars>>

\* lines 132-135 and 54-57
LoadModel(load_ok) ==
    /\ pc = "load"
    /\ calls' = Append(calls, "load")
    /\ IF CacheHit(cache, model_size)
       THEN /\ model' = cache[model_size]
            /\ returned' = returned \cup {<<model_size, cache[model_size], TRUE>>}
            /\ UNCHANGED <<cache, next_instance>>
            /\ progress' = <<50>>
            /\ status_text' = <<"Loading AI model...">>
            /\ pc' = "transcribe"
            /\ UNCHANGED banners
       ELSE IF load_ok
       THEN /\ model' = next_instance
            /\ cache' = CacheStore(cache, model_size, next_instance)
            /\ returned' = returned \cup {<<model_size, next_instance, FALSE>>}
            /\ next_instance' = next_instance + 1
            /\ progress' = <<50>>
            /\ status_text' = <<"Loading AI model...">>
            /\ pc' = "transcribe"
            /\ UNCHANGED banners
       ELSE \* whisper.load_model raises
            /\ OuterHandler
            /\ UNCHANGED <<model, cacheVars>>
    /\ UNCHANGED <<uploaded_file, model_size, bound, success, text_area, dataframe,
                   downloads, fileVars, result, runs, fmtVars>>

\* line 135 reached by the run of another browser session of the same process
OtherSessionLoad(size, load_ok) ==
    /\ IF CacheHit(cache, size)
       THEN /\ returned' = returned \cup {<<size, cache[size], TRUE>>}
            /\ UNCHANGED <<cache, next_instance>>
       ELSE IF load_ok
       THEN /\ cache' = CacheStore(cache, size, next_instance)
            /\ returned' = returned \cup {<<size, next_instance, FALSE>>}
            /\ next_instance' = next_instance + 1
       ELSE UNCHANGED cacheVars
    /\ UNCHANGED <<pc, uploaded_file, model_size, bound, uiVars, fileVars, model,
                   result, calls, runs, fmtVars>>

\* lines 137-144 and 76-88
Transcribe(raises, r) ==
    /\ pc = "transcribe"
    /\ calls' = Append(calls, "transcribe")
    /\ result' = transcribe_audio(raises, r)
    /\ progress' = <<70>>
    /\ status_text' = <<"Transcribing audio...">>
    /\ banners' = IF raises THEN Append(banners, "Error during transcription") ELSE banners
    /\ pc' = AfterTranscribe(result')
    /\ UNCHANGED <<uploaded_file, model_size, bound, success, text_area, dataframe,
                   downloads, fileVars, cacheVars, model, runs, fmtVars>>

\* lines 145-202
Present ==
    /\ pc = "present"
    /\ calls' = Append(calls, "present")
    /\ success' = TRUE
    /\ text_area' = <<result.text>>
    /\ dataframe' = IF result.has_segments THEN <<segments_data(result.segments)>> ELSE <<>>
    /\ LET txt == [label |-> "Download as TXT", data |-> result.text]
           srt == [label |-> "Download as SRT", data |-> srt_content(result.segments)]
       IN  IF result.has_segments /\ SrtLoopRaises(result.segments, bound)
           THEN \* NameError at line 193
                /\ downloads' = {txt}
                /\ OuterHandler
           ELSE /\ downloads' = IF result.has_segments THEN {txt, srt} ELSE {txt}
                /\ progress' = <<100>>
                /\ status_text' = <<"Transcription completed!">>
                /\ pc' = "cleanup"
                /\ UNCHANGED banners
    /\ UNCHANGED <<uploaded_file, model_size, bound, fileVars, cacheVars, model,
                   result, runs, fmtVars>>

\* lines 204-208, inside the try of line 115; unlink: what os.unlink meets
Cleanup(unlink) ==
    /\ pc = "cleanup"
    /\ calls' = Append(calls, "cleanup")
    /\ LET video_there == temp_video_path \in files
           audio_there == audio_path \in files
       IN  IF video_there /\ unlink = "video_fails"
           THEN \* line 206 raises
                /\ OuterHandler
                /\ UNCHANGED <<files, deleted>>
           ELSE IF audio_there /\ unlink = "audio_fails"
           THEN \* line 208 raises, after line 206
                /\ files' = files \ {temp_video_path}
                /\ deleted' = deleted \cup (files \cap {temp_video_path})
                /\ OuterHandler
           ELSE /\ files' = files \ {temp_video_path, audio_path}
                /\ deleted' = deleted \cup (files \cap {temp_video_path, audio_path})
                /\ pc' = "done"
                /\ UNCHANGED <<progress, status_text, banners>>
    /\ UNCHANGED <<uploaded_file, model_size, bound, success, text_area, dataframe,
                   downloads, next_file, temp_video_path, temp_audio_path, audio_path,
                   created, cacheVars, model, result, runs, fmtVars>>

\* lines 215-232: the rest of the script binds format_time_srt and draws the footer
ScriptTail ==
    /\ pc = "done"
    /\ bound' = bound \cup {"format_time_srt"}
    /\ pc' = "idle"
    /\ UNCHANGED <<uploaded_file, model_size, uiVars, fileVars, cacheVars, model,
                   result, calls, runs, fmtVars>>

Next ==
    \/ \E video \in Videos : Upload(video)
    \/ \E size \in Selectable : SelectModelSize(size)
    \/ ClickStart
    \/ \E outcome \in {"ok", "create_fails", "write_fails", "close_fails"} :
          SaveUpload(outcome)
    \/ \E tmp_ok, write_ok \in BOOLEAN : ExtractAudio(tmp_ok, write_ok)
    \/ \E load_ok \in BOOLEAN : LoadModel(load_ok)
    \/ \E size \in Selectable, load_ok \in BOOLEAN : OtherSessionLoad(size, load_ok)
    \/ \E raises \in BOOLEAN, r \in Results : Transcribe(raises, r)
    \/ Present
    \/ \E unlink \in {"ok", "video_fails", "audio_fails"} : Cleanup(unlink)
    \/ ScriptTail

Spec == Init /\ [][Next]_vars

----------------------------------------------------------------------------
(* A stand-alone call of format_time_srt, once the script has defined it *)

FmtOffsets == {0, 1, 2, 1499, 1500, 1501, 2996, 2997, 2998, 2999}

FormatCall(t) ==
    /\ fmt_pc = "idle"
    /\ "format_time_srt" \in bound
    /\ fmt_in' = t
    /\ fmt_out' = format_time_srt(t)
    /\ fmt_pc' = "returned"
    /\ UNCHANGED <<pc, uploaded_file, model_size, bound, uiVars, fileVars, cacheVars,
                   model, result, calls, runs>>

NextFmt ==
    /\ fmt_pc = "idle"
    /\ \E w \in 0..MaxFmtSeconds, o \in FmtOffsets : FormatCall(Seconds(w) + o)

SpecFmt == Init /\ [][NextFmt]_vars

----------------------------------------------------------------------------
(* Properties *)

RunEnded == pc = "done"
Invoked(component) == component \in Range(calls)
ExtractionFailed == "Error extracting audio" \in Range(banners)
TranscriptionFailed == "Error during transcription" \in Range(banners)
OuterCaught == "An error occurred" \in Range(banners)
RunFailed == banners # <<>>
Rendered == text_area # <<>> \/ dataframe # <<>> \/ downloads # {}
SrtDownloads == {d \in downloads : d.label = "Download as SRT"}
TxtDownloads == {d \in downloads : d.label = "Download as TXT"}
\* the blocks of an SRT text: its blank-line terminators
SrtBlockCount(data) ==
    Cardinality({i \in 1..Len(data) - 1 : data[i] = Ord("\n") /\ data[i + 1] = Ord("\n")})
DigitValue(c) == c - Ord("0")
IsDigit(c) == c \in Range(DigitChars)

\* C1: when a run ends, on every exit path, every temporary file the run
\* created (the saved upload, the extracted audio) has been deleted.
C1_TempFilesDeletedOnEveryPath == RunEnded => created \cap files = {}

\* C2: a run that ends with an error banner has rendered none of the
\* full-text area, the segment table or a download button.
C2_NoPartialResultsOnFailure == (RunEnded /\ RunFailed) => ~Rendered

\* C3: a failed run ends with the progress indicator and the status line
\* cleared and exactly one error banner shown.
C3_FailureClearsProgressAndStatus ==
    (RunEnded /\ RunFailed) =>
        /\ progress = <<>>
        /\ status_text = <<>>
        /\ Len(banners) = 1

\* C4: a run in which saving, extraction, model loading and transcription
\* succeed, with a result of at least one segment, ends without an error,
\* with progress 100, the full text shown, and the TXT and SRT downloads
\* generated, the SRT having as many blocks as the result has segments.
C4_SuccessfulRunCompletes ==
    (RunEnded /\ Invoked("transcribe") /\ Truthy(result)
        /\ result.has_segments /\ Len(result.segments) >= 1) =>
        /\ banners = <<>>
        /\ progress = <<100>>
        /\ text_area = <<result.text>>
        /\ TxtDownloads # {}
        /\ SrtDownloads # {}
        /\ \A d \in SrtDownloads : SrtBlockCount(d.data) = Len(result.segments)

\* C5: after transcribe_audio has returned None, the Result Presenter is not
\* invoked in that run: progress is not 100 and no full text, segment table
\* or download button is rendered.
C5_NoPresentationAfterTranscriptionFailure ==
    (Invoked("transcribe") /\ result = NoneResult) =>
        /\ ~Invoked("present")
        /\ progress # <<100>>
        /\ ~Rendered
        /\ ~success

C5_Witness ==
    /\ RunEnded
    /\ Invoked("transcribe")
    /\ result = NoneResult
    /\ banners = <<"Error during transcription">>

\* C6: for a video with no audio track, extract_audio_from_video shows the
\* extraction error and returns None once it has opened the video, no path
\* is passed downstream, and in that run neither the Model Loader nor the
\* Transcriber is invoked.
C6_NoAudioTrackStopsThePipeline ==
    (uploaded_file = "no_audio" /\ Invoked("extract")) =>
        /\ audio_path = NoPath
        /\ ~Invoked("load")
        /\ ~Invoked("transcribe")
        /\ ~Invoked("present")
        /\ temp_audio_path # NoPath => banners = <<"Error extracting audio">>

C6_Witness ==
    /\ RunEnded
    /\ uploaded_file = "no_audio"
    /\ calls = <<"extract">>
    /\ banners = <<"Error extracting audio">>
    /\ audio_path = NoPath

\* C7: whatever load_whisper_model requests the process has served, two
\* requests for the same size got the same instance, two requests for
\* different sizes got different instances, and every instance returned is
\* still in the cache under its size.
C7_CacheIdentityAndRetention ==
    /\ \A p \in returned, q \in returned : (p[1] = q[1]) <=> (p[2] = q[2])
    /\ \A p \in returned : cache[p[1]] = p[2]

C7_Witness ==
    \E p \in returned, q \in returned, r \in returned :
        /\ p[1] = q[1] /\ ~p[3] /\ q[3]
        /\ r[1] # p[1]
        /\ Invoked("load") /\ model # NoModel

\* C8: once the download block has run on a result with N segments, the SRT
\* download holds exactly N blocks: block k is the number k, the time-range
\* line, the trimmed text and a blank line.
C8_SrtHasOneNumberedBlockPerSegment ==
    (pc \in {"cleanup", "done"} /\ Invoked("present") /\ result.has_segments) =>
        /\ SrtDownloads # {}
        /\ \A d \in SrtDownloads :
              /\ SrtBlockCount(d.data) = Len(result.segments)
              /\ d.data = Concat([k \in 1..Len(result.segments) |->
                                     SrtBlock(k, result.segments[k])])

\* C9: format_time_srt returns HH:MM:SS,mmm with HH = floor(s/3600),
\* MM = floor((s mod 3600)/60), a seconds field from 00 to 59 and three
\* millisecond digits; 0.0, 3661.5 and 59.999 give 00:00:00,000,
\* 01:01:01,500 and 00:00:59,999.
C9_SecondsFieldStaysBelowSixty ==
    fmt_pc = "returned" =>
        /\ Len(fmt_out) = 12
        /\ SubSeq(fmt_out, 1, 2) = Pad2(fmt_in \div Seconds(3600))
        /\ fmt_out[3] = Ord(":")
        /\ SubSeq(fmt_out, 4, 5) = Pad2((fmt_in % Seconds(3600)) \div Seconds(60))
        /\ fmt_out[6] = Ord(":")
        /\ IsDigit(fmt_out[7]) /\ IsDigit(fmt_out[8])
        /\ 10 * DigitValue(fmt_out[7]) + DigitValue(fmt_out[8]) \in 0..59
        /\ fmt_out[9] = Ord(",")
        /\ \A i \in 10..12 : IsDigit(fmt_out[i])
        /\ fmt_in = 0 =>
              fmt_out = Code(<<"0", "0", ":", "0", "0", ":", "0", "0", ",", "0", "0", "0">>)
        /\ fmt_in = Seconds(3661) + 1500 =>
              fmt_out = Code(<<"0", "1", ":", "0", "1", ":", "0", "1", ",", "5", "0", "0">>)
        /\ fmt_in = Seconds(59) + 2997 =>
              fmt_out = Code(<<"0", "0", ":", "0", "0", ":", "5", "9", ",", "9", "9", "9">>)

\* C10 as stated: the temporary files are deleted only on the success path;
\* a run in which extraction or transcription fails, the caught
\* transcription failure included, deletes neither temporary file.
C10_DeletedOnlyOnSuccess ==
    RunEnded =>
        /\ (ExtractionFailed \/ TranscriptionFailed) => deleted = {}
        /\ deleted # {} => ~RunFailed

\* C10 amended: a run deletes temporary files only in the cleanup after the
\* presentation block, which it reaches whenever extraction succeeded and
\* nothing raised before it: also after transcribe_audio returned None, and
\* then both files are deleted unless os.unlink itself raises.  A run in
\* which extraction fails, or the outermost handler catches an exception
\* before the cleanup, deletes neither file; when os.unlink raises, at most
\* the saved upload is deleted.
C10_DeletedWheneverCleanupIsReached ==
    RunEnded =>
        /\ deleted # {} => (Invoked("cleanup") /\ PathTruthy(audio_path))
        /\ (ExtractionFailed \/ ~Invoked("cleanup")) =>
              (deleted = {} /\ created \subseteq files)
        /\ TranscriptionFailed =>
              /\ Invoked("cleanup")
              /\ ~OuterCaught =>
                    /\ deleted = {temp_video_path, audio_path}
                    /\ created = deleted
                    /\ created \cap files = {}
        /\ (Invoked("cleanup") /\ OuterCaught) =>
              (deleted \subseteq {temp_video_path} /\ audio_path \in files)
        /\ (Invoked("cleanup") /\ ~OuterCaught) =>
              (deleted = {temp_video_path, audio_path} /\ created \cap files = {})

C10_Witness ==
    /\ RunEnded
    /\ TranscriptionFailed
    /\ result = NoneResult
    /\ Invoked("cleanup")
    /\ temp_video_path # NoPath /\ audio_path # NoPath
    /\ deleted = {temp_video_path, audio_path}
    /\ files \cap created = {}

====
